---- MODULE Spec2Model ----
(***************************************************************************)
(* State-machine model of the axum-graphql server: process start-up in     *)
(* main, the router built by create_app, the request pipeline (routing,    *)
(* the track_metrics route layer, the handlers of routes/mod.rs) and the   *)
(* graceful shutdown driven by shutdown_signal.                            *)
(***************************************************************************)
EXTENDS Integers, Sequences, FiniteSets, Bags, TLC

\* ------------------------------------------------------------------ bounds
MaxReqs == 3        \* requests accepted during one process lifetime
MaxInFlight == 2    \* requests in flight at the same time
MaxLiveReqs == 2    \* requests accepted in the behaviours checked for liveness
MaxTraceId == 1     \* distinct non-zero trace identifiers the generator draws

\* --------------------------------------------------------------- constants
Port == 8000            \* main.rs:27
TraceIdHexLen == 32     \* Display of a 128-bit TraceId: 32 lowercase hex digits
StatusOK == 200         \* StatusCode::OK, routes/mod.rs:25

VARIABLES
    pc,             \* position of main
    env,            \* TRUE when the exporter configuration is in the environment
    schema,         \* "none" | "built"
    layers,         \* layers of the global tracing subscriber ({} = not initialised)
    app,            \* the Router: set of route records ({} = not built)
    listener,       \* 0 = unbound, otherwise the bound port
    bindCalls,      \* number of calls of Server::bind
    sigPc,          \* position of the shutdown_signal future
    tracerShutdown, \* shutdown_tracer_provider has been called
    reqs,           \* the request tasks in flight, by task slot
    delivered,      \* bag of the completed requests with their responses
    accepted,       \* number of requests accepted so far
    counter,        \* request counter of the metrics recorder, by path
    histogram,      \* number of duration observations, by path
    renders         \* number of times the recorder has been rendered

vars == <<pc, env, schema, layers, app, listener, bindCalls, sigPc,
          tracerShutdown, reqs, delivered, accepted, counter, histogram,
          renders>>

Paths == {"/health", "/", "/metrics", "/other"}
Methods == {"GET", "POST"}
Bodies == {"empty", "query_ok", "query_bad", "malformed"}
Slots == 1..MaxInFlight

\* ------------------------------------------------------- pure functions

HexDigits == <<"0","1","2","3","4","5","6","7","8","9","a","b","c","d","e","f">>

RECURSIVE ToHex(_, _)
ToHex(n, w) ==
    IF w = 0 THEN <<>>
    ELSE Append(ToHex(n \div 16, w - 1), HexDigits[(n % 16) + 1])

\* format!("{}", trace_id): fixed-width lowercase hexadecimal
FormatTraceId(t) == ToHex(t, TraceIdHexLen)

HexValue(d) == CHOOSE k \in 0..15 : HexDigits[k + 1] = d

\* Value of the first n hexadecimal digits of s
RECURSIVE ParseHexPrefix(_, _)
ParseHexPrefix(s, n) ==
    IF n = 0 THEN 0
    ELSE 16 * ParseHexPrefix(s, n - 1) + HexValue(s[n])

ParseHex(s) == ParseHexPrefix(s, Len(s))

\* serde_json serialisation of Health, as a token sequence
HealthToJson(h) ==
    <<"{", "healthy", ":", IF h.healthy THEN "true" ELSE "false", "}">>

\* serde_json deserialisation of Health; ok is FALSE when the text is no Health
HealthFromJson(s) ==
    IF /\ Len(s) = 5
       /\ s[1] = "{" /\ s[2] = "healthy" /\ s[3] = ":" /\ s[5] = "}"
       /\ s[4] \in {"true", "false"}
    THEN [ok |-> TRUE, healthy |-> (s[4] = "true")]
    ELSE [ok |-> FALSE, healthy |-> FALSE]

\* Variant of health: the payload reports healthy: false
healthUnhealthy ==
    [status |-> StatusOK, body |-> HealthToJson([healthy |-> FALSE])]

\* health(): builds Health{healthy: true} and answers (StatusCode::OK, Json(health))
health ==
    [status |-> StatusOK, body |-> HealthToJson([healthy |-> TRUE])]

\* create_tracer_from_env: a tracer exactly when the configuration is present
create_tracer_from_env(e) == IF e THEN "Some" ELSE "None"

\* Variant of RouterOps: route_layer is called before /metrics is added
RouterOpsMetricsUnlayered ==
    << [op |-> "route", path |-> "/health",
        handlers |-> [GET |-> "health", POST |-> "none"]],
       [op |-> "route", path |-> "/",
        handlers |-> [GET |-> "graphql_playground", POST |-> "graphql_handler"]],
       [op |-> "route_layer", mw |-> "track_metrics"],
       [op |-> "route", path |-> "/metrics",
        handlers |-> [GET |-> "render", POST |-> "none"]],
       [op |-> "layer", mw |-> "Extension(schema)"] >>

\* Variant of RouterOps: route_layer is called before any route is added
RouterOpsLayerFirst ==
    << [op |-> "route_layer", mw |-> "track_metrics"],
       [op |-> "route", path |-> "/health",
        handlers |-> [GET |-> "health", POST |-> "none"]],
       [op |-> "route", path |-> "/",
        handlers |-> [GET |-> "graphql_playground", POST |-> "graphql_handler"]],
       [op |-> "route", path |-> "/metrics",
        handlers |-> [GET |-> "render", POST |-> "none"]],
       [op |-> "layer", mw |-> "Extension(schema)"] >>

\* The calls of the Router builder in create_app, in source order.
RouterOps ==
    << [op |-> "route", path |-> "/health",
        handlers |-> [GET |-> "health", POST |-> "none"]],
       [op |-> "route", path |-> "/",
        handlers |-> [GET |-> "graphql_playground", POST |-> "graphql_handler"]],
       [op |-> "route", path |-> "/metrics",
        handlers |-> [GET |-> "render", POST |-> "none"]],
       [op |-> "route_layer", mw |-> "track_metrics"],
       [op |-> "layer", mw |-> "Extension(schema)"] >>

\* Router semantics: route adds a route, route_layer and layer wrap every
\* route added so far.
RECURSIVE BuildRouter(_, _)
BuildRouter(ops, n) ==
    IF n = 0 THEN {}
    ELSE LET prev == BuildRouter(ops, n - 1)
             o == ops[n]
         IN IF o.op = "route"
            THEN prev \cup {[path |-> o.path, handlers |-> o.handlers, mws |-> {}]}
            ELSE {[r EXCEPT !.mws = @ \cup {o.mw}] : r \in prev}

create_app == BuildRouter(RouterOps, Len(RouterOps))

NoReq ==
    [st |-> "none", method |-> "-", path |-> "-", body |-> "-",
     tracked |-> FALSE, status |-> 0, resp |-> <<>>, rendered |-> -1,
     span |-> -1, executed |-> FALSE, errors |-> <<>>, traceId |-> <<>>,
     startEpoch |-> 0, renderSeq |-> 0, endEpoch |-> 0]

InFlight(i) == reqs[i].st \in {"routed", "extracted", "handled"}
NoInFlight == \A i \in Slots : ~InFlight(i)

\* ------------------------------------------------------------------ Init

Init ==
    /\ pc = "start"
    /\ env \in BOOLEAN
    /\ schema = "none"
    /\ layers = {}
    /\ app = {}
    /\ listener = 0
    /\ bindCalls = 0
    /\ sigPc = "unpolled"
    /\ tracerShutdown = FALSE
    /\ reqs = [i \in Slots |-> NoReq]
    /\ delivered = EmptyBag
    /\ accepted = 0
    /\ counter = [p \in Paths |-> 0]
    /\ histogram = [p \in Paths |-> 0]
    /\ renders = 0

\* ------------------------------------------------------------- start-up

\* dotenv().ok(): variables of a .env file, if any, are added to the environment
LoadEnv ==
    /\ pc = "start"
    /\ \E file \in BOOLEAN : env' = (env \/ file)
    /\ pc' = "env_loaded"
    /\ UNCHANGED <<schema, layers, app, listener, bindCalls, sigPc, tracerShutdown, reqs, delivered, accepted, counter, histogram, renders>>

\* Schema::build(QueryRoot, EmptyMutation, EmptySubscription).finish()
BuildSchema ==
    /\ pc = "env_loaded"
    /\ schema' = "built"
    /\ pc' = "schema_built"
    /\ UNCHANGED <<env, layers, app, listener, bindCalls, sigPc, tracerShutdown, reqs, delivered, accepted, counter, histogram, renders>>

\* Variant of InitTracing: the exporter layer is installed unconditionally
InitTracingAlwaysExport ==
    /\ pc = "schema_built"
    /\ layers' = {"fmt", "otel"}
    /\ pc' = "tracing_ready"
    /\ UNCHANGED <<env, schema, app, listener, bindCalls, sigPc,
                   tracerShutdown, reqs, delivered, accepted, counter, histogram, renders>>

\* Registry::default().with(fmt) [.with(opentelemetry layer)] .try_init()
InitTracing ==
    /\ pc = "schema_built"
    /\ layers' = IF create_tracer_from_env(env) = "Some"
                 THEN {"fmt", "otel"} ELSE {"fmt"}
    /\ pc' = "tracing_ready"
    /\ UNCHANGED <<env, schema, app, listener, bindCalls, sigPc, tracerShutdown, reqs, delivered, accepted, counter, histogram, renders>>

\* Variant of CreateApp: the router is built before tracing is initialised
CreateAppBeforeTracing ==
    /\ pc = "schema_built"
    /\ app' = create_app
    /\ pc' = "app_built"
    /\ UNCHANGED <<env, schema, layers, listener, bindCalls, sigPc,
                   tracerShutdown, reqs, delivered, accepted, counter, histogram, renders>>

CreateApp ==
    /\ pc = "tracing_ready"
    /\ app' = create_app
    /\ pc' = "app_built"
    /\ UNCHANGED <<env, schema, layers, listener, bindCalls, sigPc, tracerShutdown, reqs, delivered, accepted, counter, histogram, renders>>

\* Server::bind(&addr) succeeds; the serve future polls shutdown_signal
BindOk ==
    /\ pc = "app_built"
    /\ listener' = Port
    /\ bindCalls' = bindCalls + 1
    /\ sigPc' = "waiting"
    /\ pc' = "serving"
    /\ UNCHANGED <<env, schema, layers, app, tracerShutdown, reqs, delivered, accepted,
                   counter, histogram, renders>>

\* Server::bind(&addr) panics when the address cannot be bound
BindFail ==
    /\ pc = "app_built"
    /\ bindCalls' = bindCalls + 1
    /\ pc' = "panicked"
    /\ UNCHANGED <<env, schema, layers, app, listener, sigPc, tracerShutdown, reqs, delivered, accepted, counter, histogram, renders>>

\* -------------------------------------------------------------- serving

MainRest == <<env, schema, layers, app, listener, bindCalls>>

\* What a client may send: a body only matters to POST /.  The fallback does
\* not look at the method, so GET /other stands for the unrouted requests;
\* POST /health stands for the requests whose method has no handler.
RequestKinds ==
    {k \in [method : Methods, path : Paths, body : Bodies] :
        /\ (k.body # "empty") <=> (k.method = "POST" /\ k.path = "/")
        /\ k.path \in {"/other", "/metrics"} => k.method = "GET"}

RouteOf(p) == CHOOSE r \in app : r.path = p
Matched(p) == \E r \in app : r.path = p

\* Router dispatch of a request.  A path without a route is answered 404 by
\* the fallback, outside every route layer.  A matched route enters its route
\* layers (track_metrics starts its timer) before the method router is asked.
Dispatch(k, now) ==
    IF ~Matched(k.path)
    THEN [NoReq EXCEPT !.st = "done", !.method = k.method, !.path = k.path,
                       !.body = k.body, !.status = 404]
    ELSE [NoReq EXCEPT !.st = "routed", !.method = k.method, !.path = k.path,
                       !.body = k.body,
                       !.tracked = ("track_metrics" \in RouteOf(k.path).mws),
                       !.startEpoch = IF k.path = "/health" THEN now ELSE 0]

\* Variant of Accept: the listener is still polled after the signal
AcceptAfterSignal(i) ==
    /\ pc = "serving"
    /\ accepted < MaxReqs
    /\ reqs[i].st = "none"
    /\ \A j \in Slots : j < i => reqs[j].st # "none"
    /\ accepted' = accepted + 1
    /\ \E k \in RequestKinds :
          LET r == Dispatch(k, renders)
          IN IF r.st = "done"
             THEN /\ delivered' = delivered (+) SetToBag({r})
                  /\ reqs' = reqs
             ELSE /\ reqs' = [reqs EXCEPT ![i] = r]
                  /\ delivered' = delivered
    /\ UNCHANGED <<pc, MainRest, sigPc, tracerShutdown, counter, histogram,
                   renders>>

\* The listener accepts a connection, a request is read from it and handed to
\* the router in a task of its own (the lowest free slot).  Only the running
\* server accepts: once the shutdown future has completed its select! the
\* serve future never polls the listener again.
Accept(i) ==
    /\ pc = "serving"
    /\ sigPc = "waiting"
    /\ accepted < MaxReqs
    /\ reqs[i].st = "none"
    /\ \A j \in Slots : j < i => reqs[j].st # "none"
    /\ accepted' = accepted + 1
    /\ \E k \in RequestKinds :
          LET r == Dispatch(k, renders)
          IN IF r.st = "done"
             THEN /\ delivered' = delivered (+) SetToBag({r})
                  /\ reqs' = reqs
             ELSE /\ reqs' = [reqs EXCEPT ![i] = r]
                  /\ delivered' = delivered
    /\ UNCHANGED <<pc, MainRest, sigPc, tracerShutdown, counter, histogram,
                   renders>>

HandlerOf(r) == RouteOf(r.path).handlers[r.method]

\* The method router finds no handler for the method: 405
MethodNotAllowed(i) ==
    /\ reqs[i].st = "routed"
    /\ pc \in {"serving", "draining"}
    /\ HandlerOf(reqs[i]) = "none"
    /\ reqs' = [reqs EXCEPT ![i].st = "handled", ![i].status = 405]
    /\ UNCHANGED <<pc, MainRest, sigPc, tracerShutdown, delivered, accepted,
                   counter, histogram, renders>>

\* GET /health
Health(i) ==
    /\ reqs[i].st = "routed"
    /\ pc \in {"serving", "draining"}
    /\ HandlerOf(reqs[i]) = "health"
    /\ reqs' = [reqs EXCEPT ![i].st = "handled", ![i].status = health.status,
                            ![i].resp = health.body]
    /\ UNCHANGED <<pc, MainRest, sigPc, tracerShutdown, delivered, accepted,
                   counter, histogram, renders>>

\* GET /: Html(playground_source(..))
GraphqlPlayground(i) ==
    /\ reqs[i].st = "routed"
    /\ pc \in {"serving", "draining"}
    /\ HandlerOf(reqs[i]) = "graphql_playground"
    /\ reqs' = [reqs EXCEPT ![i].st = "handled", ![i].status = StatusOK,
                            ![i].resp = <<"<html>", "playground", "/", "ws">>]
    /\ UNCHANGED <<pc, MainRest, sigPc, tracerShutdown, delivered, accepted,
                   counter, histogram, renders>>

\* GET /metrics: ready(prometheus_recorder.render())
RenderMetrics(i) ==
    /\ reqs[i].st = "routed"
    /\ pc \in {"serving", "draining"}
    /\ HandlerOf(reqs[i]) = "render"
    /\ renders' = renders + 1
    /\ reqs' = [reqs EXCEPT ![i].st = "handled", ![i].status = StatusOK,
                            ![i].rendered = counter["/health"],
                            ![i].renderSeq = renders + 1]
    /\ UNCHANGED <<pc, MainRest, sigPc, tracerShutdown, delivered, accepted,
                   counter, histogram>>

\* Variant of GraphqlExtract: the body is handed to the handler unparsed
GraphqlExtractLenient(i) ==
    /\ reqs[i].st = "routed"
    /\ pc \in {"serving", "draining"}
    /\ HandlerOf(reqs[i]) = "graphql_handler"
    /\ reqs' = [reqs EXCEPT ![i].st = "extracted"]
    /\ UNCHANGED <<pc, MainRest, sigPc, tracerShutdown, delivered, accepted,
                   counter, histogram, renders>>

\* POST /: the extractors of graphql_handler run before its body, in argument
\* order: GraphQLRequest (rejects a body that is no GraphQL request), then
\* Extension<ServiceSchema> (rejects when the Extension layer is missing).
GraphqlExtract(i) ==
    /\ reqs[i].st = "routed"
    /\ pc \in {"serving", "draining"}
    /\ HandlerOf(reqs[i]) = "graphql_handler"
    /\ reqs' = [reqs EXCEPT
          ![i].st = IF reqs[i].body = "malformed"
                       \/ "Extension(schema)" \notin RouteOf(reqs[i].path).mws
                    THEN "handled" ELSE "extracted",
          ![i].status = IF reqs[i].body = "malformed" THEN 400
                        ELSE IF "Extension(schema)" \notin RouteOf(reqs[i].path).mws
                             THEN 500 ELSE 0]
    /\ UNCHANGED <<pc, MainRest, sigPc, tracerShutdown, delivered, accepted,
                   counter, histogram, renders>>

\* schema.execute(request): the query root has no field that can fail; a
\* document that does not validate yields an errors list and no data
Execute(body) ==
    IF body = "query_ok" THEN [data |-> "data", errors |-> <<>>]
    ELSE [data |-> "null", errors |-> <<"invalid_query">>]

\* The trace identifiers a new root span may get: drawn by the exporter layer
\* when it is installed, the invalid (zero) identifier otherwise
NewTraceIds == IF "otel" \in layers THEN 1..MaxTraceId ELSE {0}

\* Variant of GraphqlHandler: a response with errors is returned as it is
GraphqlHandlerNoIdOnError(i) ==
    /\ reqs[i].st = "extracted"
    /\ pc \in {"serving", "draining"}
    /\ \E t \in NewTraceIds :
         LET response == Execute(reqs[i].body)
         IN reqs' = [reqs EXCEPT ![i].st = "handled",
                        ![i].span = t,
                        ![i].executed = TRUE,
                        ![i].resp = <<response.data>>,
                        ![i].errors = response.errors,
                        ![i].traceId = IF response.errors = <<>>
                                       THEN FormatTraceId(t) ELSE <<>>,
                        ![i].status = StatusOK]
    /\ UNCHANGED <<pc, MainRest, sigPc, tracerShutdown, delivered, accepted,
                   counter, histogram, renders>>

\* Body of graphql_handler: span!(INFO, "graphql_execution"), the instrumented
\* schema.execute, then response.extension("traceId", format!(trace_id)).into()
GraphqlHandler(i) ==
    /\ reqs[i].st = "extracted"
    /\ pc \in {"serving", "draining"}
    /\ \E t \in NewTraceIds :
         LET response == Execute(reqs[i].body)
         IN reqs' = [reqs EXCEPT ![i].st = "handled",
                        ![i].span = t,
                        ![i].executed = TRUE,
                        ![i].resp = <<response.data>>,
                        ![i].errors = response.errors,
                        ![i].traceId = FormatTraceId(t),
                        ![i].status = StatusOK]
    /\ UNCHANGED <<pc, MainRest, sigPc, tracerShutdown, delivered, accepted,
                   counter, histogram, renders>>

\* The response leaves through the route layers: track_metrics records the
\* duration and increments the request counter (one atomic update each), then
\* the response is written, the request is complete and its task ends.
Respond(i) ==
    /\ reqs[i].st = "handled"
    /\ pc \in {"serving", "draining"}
    /\ counter' = IF reqs[i].tracked
                  THEN [counter EXCEPT ![reqs[i].path] = @ + 1] ELSE counter
    /\ histogram' = IF reqs[i].tracked
                    THEN [histogram EXCEPT ![reqs[i].path] = @ + 1] ELSE histogram
    /\ delivered' = delivered (+) SetToBag({
          [reqs[i] EXCEPT !.st = "done",
                          !.endEpoch =
                              IF reqs[i].path = "/health" THEN renders ELSE 0]})
    /\ reqs' = [reqs EXCEPT ![i] = NoReq]
    /\ UNCHANGED <<pc, MainRest, sigPc, tracerShutdown, accepted, renders>>

\* ------------------------------------------------------------- shutdown

\* tokio::select! in shutdown_signal: ctrl_c or (unix) terminate completes
SignalReceived ==
    /\ pc = "serving"
    /\ sigPc = "waiting"
    /\ \E branch \in {"ctrl_c", "terminate"} : sigPc' = "selected"
    /\ UNCHANGED <<pc, MainRest, tracerShutdown, reqs, delivered, accepted, counter, histogram,
                   renders>>

\* opentelemetry::global::shutdown_tracer_provider(), last statement of
\* shutdown_signal; the future is then complete
ShutdownTracer ==
    /\ sigPc = "selected"
    /\ tracerShutdown' = TRUE
    /\ sigPc' = "done"
    /\ UNCHANGED <<pc, MainRest, reqs, delivered, accepted, counter, histogram, renders>>

\* with_graceful_shutdown: the signal future is complete, the server stops
\* accepting and drains the connections in flight
StartDrain ==
    /\ pc = "serving"
    /\ sigPc = "done"
    /\ pc' = "draining"
    /\ UNCHANGED <<MainRest, sigPc, tracerShutdown, reqs, delivered, accepted, counter,
                   histogram, renders>>

\* The drain is over: the serve future returns Ok, unwrap passes, main returns
ServeReturn ==
    /\ pc = "draining"
    /\ NoInFlight
    /\ pc' = "exited"
    /\ UNCHANGED <<MainRest, sigPc, tracerShutdown, reqs, delivered, accepted, counter,
                   histogram, renders>>

\* Variant of ServeError: the serve future can fail after the signal as well
ServeErrorAnytime ==
    /\ pc \in {"serving", "draining"}
    /\ pc' = "panicked"
    /\ UNCHANGED <<MainRest, sigPc, tracerShutdown, reqs, delivered, accepted, counter,
                   histogram, renders>>

\* The serve future returns Err while running: .unwrap() panics
ServeError ==
    /\ pc = "serving"
    /\ sigPc = "waiting"
    /\ pc' = "panicked"
    /\ UNCHANGED <<MainRest, sigPc, tracerShutdown, reqs, delivered, accepted, counter,
                   histogram, renders>>

Next ==
    \/ LoadEnv
    \/ BuildSchema
    \/ InitTracing
    \/ CreateApp
    \/ BindOk
    \/ BindFail
    \/ \E i \in Slots : Accept(i)
    \/ \E i \in Slots : MethodNotAllowed(i)
    \/ \E i \in Slots : Health(i)
    \/ \E i \in Slots : GraphqlPlayground(i)
    \/ \E i \in Slots : RenderMetrics(i)
    \/ \E i \in Slots : GraphqlExtract(i)
    \/ \E i \in Slots : GraphqlHandler(i)
    \/ \E i \in Slots : Respond(i)
    \/ SignalReceived
    \/ ShutdownTracer
    \/ StartDrain
    \/ ServeReturn
    \/ ServeError

Spec == Init /\ [][Next]_vars

\* Scheduling: the runtime keeps polling every spawned request task and the
\* serve future, so each enabled step of a request, of the shutdown future and
\* of the drain is eventually taken.  Signals and failures are not forced.
\* The behaviours checked for liveness accept at most MaxLiveReqs requests.
LiveNext == Next /\ accepted' <= MaxLiveReqs

LiveSpec ==
    /\ Init /\ [][LiveNext]_vars
    /\ \A i \in Slots :
          WF_vars(MethodNotAllowed(i) \/ Health(i)
                  \/ GraphqlPlayground(i) \/ RenderMetrics(i)
                  \/ GraphqlExtract(i) \/ GraphqlHandler(i) \/ Respond(i))
    /\ WF_vars(ShutdownTracer)
    /\ WF_vars(StartDrain)
    /\ WF_vars(ServeReturn)

\* ---------------------------------------------------------------- claims

Delivered == BagToSet(delivered)
Running == {reqs[i] : i \in Slots} \ {NoReq}
Seen == Running \cup Delivered

\* Number of delivered requests among the records S
RECURSIVE CountIn(_)
CountIn(S) ==
    IF S = {} THEN 0
    ELSE LET r == CHOOSE x \in S : TRUE
         IN CopiesIn(r, delivered) + CountIn(S \ {r})

Answered(r) == r.st \in {"handled", "done"}
IsHealthGet(r) == r.method = "GET" /\ r.path = "/health"

\* C1: every answered GET /health has status 200 and a body that deserializes
\* to Health{healthy: true}, and any two such bodies are identical, whatever
\* else the server has done.
C1_HealthAlwaysHealthy ==
    /\ \A r \in Seen :
          (IsHealthGet(r) /\ Answered(r)) =>
              /\ r.status = 200
              /\ HealthFromJson(r.resp).ok
              /\ HealthFromJson(r.resp).healthy
    /\ \A r, q \in Seen :
          (IsHealthGet(r) /\ Answered(r) /\ IsHealthGet(q) /\ Answered(q)) =>
              r.resp = q.resp

\* Two GET /health requests have been completed, and a request to / besides.
C1_Witness ==
    /\ CountIn({r \in Delivered : IsHealthGet(r)}) >= 2
    /\ \E r \in Delivered : r.path = "/"

\* C2: the tracer provider is shut down only once no request is in flight,
\* and the process exits after both the drain and the tracer shutdown.
C2_TracerShutdownAfterDrain ==
    /\ tracerShutdown => NoInFlight
    /\ pc = "exited" => (tracerShutdown /\ NoInFlight)

\* C3 (as stated): a request to /metrics never passes through track_metrics
\* and never changes the request counter or the duration histogram.
C3_MetricsNotTracked ==
    /\ \A r \in Seen : r.path = "/metrics" => ~r.tracked
    /\ counter["/metrics"] = 0
    /\ histogram["/metrics"] = 0

DeliveredTo(p) == CountIn({r \in Delivered : r.path = p})

\* C3 (amended): track_metrics wraps every route of the router, /metrics
\* included: each request to /health, / or /metrics passes through it, and
\* the counter and histogram of /metrics count the completed /metrics requests.
C3_AllRoutesTracked ==
    /\ \A r \in Seen :
          /\ r.path \in {"/health", "/", "/metrics"} => r.tracked
          /\ r.path = "/other" => ~r.tracked
    /\ counter["/metrics"] = DeliveredTo("/metrics")
    /\ histogram["/metrics"] = DeliveredTo("/metrics")

\* A GET /metrics request has completed and has been counted.
C3_Witness ==
    /\ \E r \in Delivered :
          r.path = "/metrics" /\ r.method = "GET" /\ r.tracked
    /\ counter["/metrics"] >= 1

IsRead(r) == r.renderSeq > 0
HealthBetween(a, b) ==
    {h \in Delivered : /\ h.path = "/health"
                       /\ h.startEpoch >= a.renderSeq
                       /\ h.endEpoch < b.renderSeq}

ReadsCoverCompleted ==
    \A a, b \in Seen :
        (IsRead(a) /\ IsRead(b) /\ a.renderSeq < b.renderSeq) =>
            b.rendered - a.rendered >= CountIn(HealthBetween(a, b))

SignalObserved == sigPc \in {"selected", "done"}

\* C5: once a shutdown signal is observed no connection is accepted, the
\* serve future returns only with no request in flight, and every request in
\* flight at the signal is completed and the process then exits.
C5_GracefulShutdown ==
    /\ [][SignalObserved => accepted' = accepted]_vars
    /\ [](pc = "exited" => NoInFlight)
    /\ SignalObserved ~>
          (pc = "exited" /\ BagCardinality(delivered) = accepted)

\* The signal has been observed, the server is draining and a request
\* accepted before the signal has still to be answered.
C5_Witness ==
    /\ pc = "draining"
    /\ SignalObserved
    /\ \E i \in Slots : reqs[i].st = "routed" /\ reqs[i].tracked

FromGraphqlHandler(r) ==
    /\ r.method = "POST" /\ r.path = "/"
    /\ Answered(r)
    /\ r.body # "malformed"

C7_MalformedRejectedBeforeHandler ==
    \A r \in Seen :
        (r.body = "malformed") =>
            /\ r.st # "extracted"
            /\ r.span = -1
            /\ ~r.executed
            /\ r.traceId = <<>>
            /\ Answered(r) => (r.status >= 400 /\ r.status <= 499)

\* A malformed POST / has been answered.
C7_Witness ==
    \E r \in Delivered : r.body = "malformed" /\ r.status = 400

\* C8 (as stated): the tracing pipeline is initialised before the schema is
\* built.
C8_TracingBeforeSchema ==
    schema = "built" => layers # {}

\* C8 (amended): start-up order is load environment, build schema, initialise
\* tracing, build router, bind 0.0.0.0:8000, serve; each step finds all the
\* earlier ones complete.
C8_StartupOrder ==
    /\ pc = "start" => (schema = "none" /\ layers = {} /\ app = {} /\ listener = 0)
    /\ schema = "built" => pc # "start"
    /\ layers # {} => schema = "built"
    /\ app # {} => layers # {}
    /\ bindCalls > 0 => app # {}
    /\ listener # 0 => (listener = Port /\ bindCalls > 0)
    /\ accepted > 0 => listener = Port

\* The server is serving a request, every start-up step done.
C8_Witness ==
    /\ pc = "serving"
    /\ Running # {}
    /\ schema = "built" /\ layers # {} /\ app # {} /\ listener = Port

TracingInitialised == layers # {}

C9_LayersChosen ==
    TracingInitialised =>
        /\ "fmt" \in layers
        /\ ("otel" \in layers) <=> (create_tracer_from_env(env) = "Some")
        /\ (~env) => (layers = {"fmt"})
        /\ pc # "schema_built"

\* C9: tracing is initialised once: the console layer is always installed,
\* the exporter layer exactly when create_tracer_from_env returns a tracer, a
\* missing configuration gives the console layer alone and start-up goes on,
\* and no later step changes the layers.
C9_TracingChosenOnce ==
    [][ /\ TracingInitialised => layers' = layers
        /\ C9_LayersChosen' ]_vars

\* The configuration is missing and the server is serving with the console
\* layer alone.
C9_Witness ==
    /\ ~env
    /\ layers = {"fmt"}
    /\ pc = "serving"
    /\ accepted > 0

\* C10: a bind or serve failure ends the process at once: nothing runs
\* after it, bind was called once, no drain was started and the tracer
\* provider was not shut down.
C10_FailureAbortsWithoutCleanup ==
    [][ /\ pc # "panicked"
        /\ pc' = "panicked" =>
              /\ ~tracerShutdown'
              /\ bindCalls' = 1
              /\ sigPc' \in {"unpolled", "waiting"}
              /\ reqs' = reqs /\ delivered' = delivered ]_vars

\* Serving failed with a request in flight.
C10_Witness ==
    /\ pc = "panicked"
    /\ listener = Port
    /\ \E i \in Slots : InFlight(i)

====
